---- MODULE Spec2Model ----
(***************************************************************************)
(* A model of three pieces of the runtime's thread/object foundation:      *)
(*                                                                         *)
(*   - JavaFrameAnchor (cpu/x86/vm/javaFrameAnchor_x86.hpp): the three     *)
(*     fields _last_Java_sp, _last_Java_fp, _last_Java_pc, written by the  *)
(*     owning thread one store at a time and read by an observer one load  *)
(*     at a time;                                                          *)
(*   - serialize_memory (os/windows/vm/interfaceSupport_windows.hpp): the  *)
(*     guarded write to the serialization page;                            *)
(*   - klassOopDesc (share/vm/oops/klassOop.hpp): the layout constants.    *)
(*                                                                         *)
(* Stores and loads of single fields are the atomic steps; they take       *)
(* effect in program order (the fields are volatile words on x86).         *)
(***************************************************************************)
EXTENDS Integers, Sequences, FiniteSets, TLC

\* ------------------------------------------------------------------------
\* Bounds and constants
\* ------------------------------------------------------------------------

\* Pointer values are 0..MaxSP.  Frame k has stack pointer k; its frame
\* pointer and its pc are each k or absent.
MaxSP == 2

\* The absent value of a pointer field.
NULL == 0

VARIABLES
  \* --- frame anchor ---
  _last_Java_sp,   \* the anchor's fields
  _last_Java_fp,
  _last_Java_pc,
  todo,            \* owner: the stores of the running operation still to do
  done,            \* owner: the stores the running (or last) operation did
  op,              \* owner: the running (or last) operation: kind, pre
  again,           \* owner: whether op is a clear() called right after a clear(),
                   \*        and the anchor before that first clear()
  rpc,             \* observer: which load comes next
  r_sp,            \* observer: the sample's loads
  r_fp,
  r_pc,
  r_sp2,           \* observer: the second load of sp (the re-check)
  r_ctx,           \* observer: the owner's completed operation when sp was loaded
  sOps,            \* observer: the kinds of the operations that overlapped the sample
  walk_ret,        \* the last value walkable() returned
  \* --- serialization page ---
  page_writable,   \* the page's protection: TRUE while writes to it succeed
  tstate,          \* per thread: managed, parked, resuming, native, faulted
  fault,           \* per thread: its last fault in serialize_memory and how it ended
  polls,           \* per thread: its calls of serialize_memory since the request
  requested,       \* the coordinator has requested a safepoint
  observed,        \* the threads the coordinator has observed to be safe
  \* --- class objects ---
  HeapWordSize,    \* bytes per heap word of the build
  base,            \* per class object: its address
  callee,          \* the class object of the last call
  ret_size,        \* header_size(): the values returned, the objects asked,
                   \* and whether it was called after a relocation
  ret_off,         \* the same for klass_part_offset_in_bytes()
  ret_part,        \* the last klass_part(): object, address, result
  moved,           \* a class object has been relocated
  \* --- fault handlers ---
  has_outer,       \* per thread: a caller of serialize_memory has a handler of its own
  offered          \* per thread: the handlers its last fault was offered to, in order

anchorVars == <<_last_Java_sp, _last_Java_fp, _last_Java_pc, todo, done, op,
                again, rpc, r_sp, r_fp, r_pc, r_sp2, r_ctx, sOps, walk_ret>>

gateVars == <<page_writable, tstate, fault, polls, requested, observed>>

klassVars == <<HeapWordSize, base, callee, ret_size, ret_off, ret_part, moved>>

chainVars == <<has_outer, offered>>

vars == <<anchorVars, gateVars, klassVars, chainVars>>

\* ------------------------------------------------------------------------
\* JavaFrameAnchor
\* ------------------------------------------------------------------------

Absent == [sp |-> NULL, fp |-> NULL, pc |-> NULL]

\* The anchor the owner's operations act on.
this == [sp |-> _last_Java_sp, fp |-> _last_Java_fp, pc |-> _last_Java_pc]

\* The anchor after the step.
thisNext == [sp |-> _last_Java_sp', fp |-> _last_Java_fp', pc |-> _last_Java_pc']

\* One store: field f := v.
St(f, v) == [f |-> f, v |-> v]

\* The anchor a after store s.
Apply(a, s) ==
  CASE s.f = "sp" -> [a EXCEPT !.sp = s.v]
    [] s.f = "fp" -> [a EXCEPT !.fp = s.v]
    [] s.f = "pc" -> [a EXCEPT !.pc = s.v]

\* clear() with sp stored last.
clear_sp_last == << St("fp", NULL), St("pc", NULL), St("sp", NULL) >>

\* clear() that forgets the pc.
clear_forgets_pc == << St("sp", NULL), St("fp", NULL) >>

\* clear(): the stores it does, in program order.
clear == << St("sp", NULL), St("fp", NULL), St("pc", NULL) >>

\* copy(src) without the store of NULL.
copy_no_null(src) ==
  << St("fp", src.fp), St("pc", src.pc), St("sp", src.sp) >>

\* copy(src) with sp copied first.
copy_sp_first(src) ==
  << St("sp", src.sp), St("fp", src.fp), St("pc", src.pc) >>

\* copy() that leaves the pc as it is.
copy_keeps_pc(src) ==
  (IF _last_Java_sp # src.sp THEN << St("sp", NULL) >> ELSE << >>)
    \o << St("fp", src.fp), St("sp", src.sp) >>

\* copy(src): the stores it does, in program order.  src is not written
\* while the copy runs.
copy(src) ==
  (IF _last_Java_sp # src.sp THEN << St("sp", NULL) >> ELSE << >>)
    \o << St("fp", src.fp), St("pc", src.pc), St("sp", src.sp) >>

\* walkable()
walkable == TRUE

\* make_walkable(thread): the anchor a after the call.
make_walkable(a) == a

\* last_Java_sp(), last_Java_fp(): the getters.
last_Java_sp == _last_Java_sp
last_Java_fp == _last_Java_fp

\* set_last_Java_sp(sp) that also clears fp.
set_last_Java_sp_clears_fp(sp) == << St("sp", sp), St("fp", NULL) >>

\* set_last_Java_sp(sp), set_last_Java_fp(fp): the setters.
set_last_Java_sp(sp) == << St("sp", sp) >>
set_last_Java_fp(fp) == << St("fp", fp) >>

\* The saved anchors copy() is given: the cleared anchor, or a frame.
SrcAnchors ==
  {Absent} \cup
  UNION {[sp : {s}, fp : {NULL, s}, pc : {NULL, s}] : s \in 1..MaxSP}

idle == todo = << >>

NotAgain == [on |-> FALSE, pre |-> Absent]

InitOp == [kind |-> "init", pre |-> Absent, post |-> Absent]

\* How an operation shows in a sample's record: a copy() that fills an absent
\* anchor with a frame is a publish.
Descr(o) ==
  IF o.kind = "copy" /\ o.pre.sp = NULL /\ o.post.sp # NULL THEN "publish"
  ELSE o.kind

\* The sample's record once operation o has begun.  A sample lasts from the
\* moment the observer sets out to take it to its last load.  The record holds
\* two operations; of a sample that more operations overlap it says "many".
Overlap(o) ==
  IF sOps = << "many" >> THEN sOps
  ELSE IF Len(sOps) >= 2 THEN << "many" >>
  ELSE Append(sOps, Descr(o))

\* The owner begins an operation: its stores are ss, the anchor it is to leave
\* is post.  The operation's first store is part of the step.
Begin(kind, ss, post) ==
  /\ idle
  /\ LET a == Apply(this, Head(ss))
         o == [kind |-> kind, pre |-> this, post |-> post]
     IN  /\ _last_Java_sp' = a.sp
         /\ _last_Java_fp' = a.fp
         /\ _last_Java_pc' = a.pc
         /\ op' = o
         /\ sOps' = Overlap(o)
  /\ todo' = Tail(ss)
  /\ done' = << Head(ss) >>
  /\ again' = IF kind = "clear" /\ op.kind = "clear"
               THEN [on |-> TRUE, pre |-> op.pre]
               ELSE NotAgain
  /\ UNCHANGED <<rpc, r_sp, r_fp, r_pc, r_sp2, r_ctx, walk_ret>>

Call_clear == Begin("clear", clear, Absent)

Call_copy == \E src \in SrcAnchors : Begin("copy", copy(src), src)

Call_set_last_Java_sp ==
  \E sp \in 0..MaxSP :
    Begin("set_sp", set_last_Java_sp(sp), [this EXCEPT !.sp = sp])

Call_set_last_Java_fp ==
  \E fp \in 0..MaxSP :
    Begin("set_fp", set_last_Java_fp(fp), [this EXCEPT !.fp = fp])

\* The owner's next store.
Store ==
  /\ ~idle
  /\ LET a == Apply(this, Head(todo)) IN
       /\ _last_Java_sp' = a.sp
       /\ _last_Java_fp' = a.fp
       /\ _last_Java_pc' = a.pc
  /\ todo' = Tail(todo)
  /\ done' = Append(done, Head(todo))
  /\ UNCHANGED <<op, again, rpc, r_sp, r_fp, r_pc, r_sp2, r_ctx, sOps, walk_ret>>

\* The owner calls make_walkable(thread) between operations.
Call_make_walkable ==
  /\ idle
  /\ LET a == make_walkable(this)
         o == [kind |-> "make_walkable", pre |-> this, post |-> this]
     IN  /\ _last_Java_sp' = a.sp
         /\ _last_Java_fp' = a.fp
         /\ _last_Java_pc' = a.pc
         /\ op' = o
         /\ sOps' = Overlap(o)
  /\ done' = << >>
  /\ again' = NotAgain
  /\ UNCHANGED <<todo, rpc, r_sp, r_fp, r_pc, r_sp2, r_ctx, walk_ret>>

\* Anyone calls walkable(), at any time.
Call_walkable ==
  /\ walk_ret' = walkable
  /\ UNCHANGED <<_last_Java_sp, _last_Java_fp, _last_Java_pc, todo, done, op,
                 again, rpc, r_sp, r_fp, r_pc, r_sp2, r_ctx, sOps>>

\* What the observer notes of the owner when it loads sp: the operation that
\* has returned, and the sp it was to leave.
Ctx == IF idle THEN [kind |-> op.kind, sp |-> op.post.sp]
       ELSE [kind |-> "busy", sp |-> NULL]

NoCtx == [kind |-> "none", sp |-> NULL]

\* The observer's sample: sp first, then fp, then pc, then sp again.
Read_sp ==
  /\ rpc = "sp"
  /\ r_sp' = last_Java_sp
  /\ r_ctx' = Ctx
  /\ rpc' = "fp"
  /\ UNCHANGED <<_last_Java_sp, _last_Java_fp, _last_Java_pc, todo, done, op,
                 again, r_fp, r_pc, r_sp2, sOps, walk_ret>>

Read_fp ==
  /\ rpc = "fp"
  /\ r_fp' = last_Java_fp
  /\ rpc' = "pc"
  /\ UNCHANGED <<_last_Java_sp, _last_Java_fp, _last_Java_pc, todo, done, op,
                 again, r_sp, r_pc, r_sp2, r_ctx, sOps, walk_ret>>

Read_pc ==
  /\ rpc = "pc"
  /\ r_pc' = _last_Java_pc
  /\ rpc' = "recheck"
  /\ UNCHANGED <<_last_Java_sp, _last_Java_fp, _last_Java_pc, todo, done, op,
                 again, r_sp, r_fp, r_sp2, r_ctx, sOps, walk_ret>>

Recheck_sp ==
  /\ rpc = "recheck"
  /\ r_sp2' = last_Java_sp
  /\ rpc' = "done"
  /\ UNCHANGED <<_last_Java_sp, _last_Java_fp, _last_Java_pc, todo, done, op,
                 again, r_sp, r_fp, r_pc, r_ctx, sOps, walk_ret>>

\* The observer starts over.
Resample ==
  /\ rpc = "done"
  /\ rpc' = "sp"
  /\ r_sp' = NULL /\ r_fp' = NULL /\ r_pc' = NULL /\ r_sp2' = NULL
  /\ r_ctx' = NoCtx
  /\ sOps' = IF idle THEN << >> ELSE << Descr(op) >>
  /\ UNCHANGED <<_last_Java_sp, _last_Java_fp, _last_Java_pc, todo, done, op,
                 again, walk_ret>>

\* A thread's anchor starts out cleared.
InitAnchor ==
  /\ _last_Java_sp = NULL /\ _last_Java_fp = NULL /\ _last_Java_pc = NULL
  /\ todo = << >>
  /\ done = << >>
  /\ op = InitOp
  /\ again = NotAgain
  /\ rpc = "sp"
  /\ r_sp = NULL /\ r_fp = NULL /\ r_pc = NULL /\ r_sp2 = NULL
  /\ r_ctx = NoCtx
  /\ sOps = << >>
  /\ walk_ret = TRUE

\* ------------------------------------------------------------------------
\* serialize_memory and the safepoint gate
\* ------------------------------------------------------------------------

\* How many threads run.
NThreads == 4

Threads == 1..NThreads

\* os::write_memory_serialize_page: the write to address a.  It faults at the
\* page while the page is protected, and at any other address always; "ok"
\* when it does not fault.
write_memory_serialize_page(a) ==
  IF a = "page" THEN (IF page_writable THEN "ok" ELSE "page") ELSE a

\* os::win32::serialize_fault_filter: whether the filter parks the thread, and
\* what it tells the handler chain.
serialize_fault_filter(addr) ==
  IF addr = "page"
  THEN [park |-> TRUE,  disp |-> "EXCEPTION_EXECUTE_HANDLER"]
  ELSE [park |-> FALSE, disp |-> "EXCEPTION_CONTINUE_SEARCH"]

\* serialize_memory whose handler takes every fault.
serialize_memory_takes_all(a) ==
  LET f == write_memory_serialize_page(a) IN
    IF f = "ok" THEN [fault |-> "none", park |-> FALSE, out |-> "returns"]
    ELSE [fault |-> f, park |-> FALSE, out |-> "suppressed"]

\* serialize_memory without the write.
serialize_memory_no_write(a) ==
  [fault |-> "none", park |-> FALSE, out |-> "returns"]

\* serialize_memory(thread), its write going to address a: the fault raised in
\* the __try block, whether the filter parked the thread, and how the
\* statement ends: it returns, the empty handler runs (the fault is
\* suppressed), or the fault propagates to the outer handlers.
serialize_memory(a) ==
  LET f == write_memory_serialize_page(a) IN
    IF f = "ok" THEN [fault |-> "none", park |-> FALSE, out |-> "returns"]
    ELSE LET r == serialize_fault_filter(f) IN
           [fault |-> f,
            park  |-> r.park,
            out   |-> IF r.disp = "EXCEPTION_EXECUTE_HANDLER"
                      THEN "suppressed" ELSE "propagates"]

NoFault == [addr |-> "none", out |-> "none"]

\* The most calls of serialize_memory counted per thread and request.
PollCap == 2

\* Thread t calls serialize_memory, its write going to address a; in state
\* after when the call returns at once.
Serialize(t, a, after) ==
  LET r == serialize_memory(a) IN
    /\ tstate' = [tstate EXCEPT ![t] =
                    IF r.park THEN "parked"
                    ELSE IF r.out = "propagates" THEN "faulted"
                    ELSE after]
    /\ fault' = [fault EXCEPT ![t] =
                    IF r.fault = "none" THEN @ ELSE [addr |-> r.fault, out |-> r.out]]
    /\ polls' = [polls EXCEPT ![t] =
                    IF requested /\ @ < PollCap THEN @ + 1 ELSE @]
    /\ UNCHANGED <<page_writable, requested, observed>>

\* A thread in managed code polls.
Poll(t) ==
  /\ tstate[t] = "managed"
  /\ Serialize(t, "page", "managed")

\* A thread leaves managed code, polling on the way.
LeaveManaged(t) ==
  /\ tstate[t] = "managed"
  /\ page_writable
  /\ Serialize(t, "page", "native")

\* A thread returns to managed code, polling on the way.
ReturnToManaged(t) ==
  /\ tstate[t] = "native"
  /\ Serialize(t, "page", "managed")

\* A thread's write in serialize_memory goes astray.
StrayWrite(t) ==
  /\ tstate[t] = "managed"
  /\ Serialize(t, "other", "managed")

\* A thread that leaves the filter without having been released.
Resume_spurious(t) ==
  /\ tstate[t] \in {"parked", "resuming"}
  /\ tstate' = [tstate EXCEPT ![t] = "managed"]
  /\ fault' = [fault EXCEPT ![t] = NoFault]
  /\ UNCHANGED <<page_writable, polls, requested, observed>>

\* A released thread leaves the filter and the handler; serialize_memory
\* returns.
Resume(t) ==
  /\ tstate[t] = "resuming"
  /\ tstate' = [tstate EXCEPT ![t] = "managed"]
  /\ fault' = [fault EXCEPT ![t] = NoFault]
  /\ UNCHANGED <<page_writable, polls, requested, observed>>

\* The coordinator requests a safepoint: it protects the page.
Request ==
  /\ ~requested
  /\ requested' = TRUE
  /\ page_writable' = FALSE
  /\ observed' = {}
  /\ polls' = [t \in Threads |-> 0]
  /\ UNCHANGED <<tstate, fault>>

\* A coordinator that waits for every thread to park.
Observe_parked_only(t) ==
  /\ requested
  /\ t \notin observed
  /\ tstate[t] = "parked"
  /\ observed' = observed \cup {t}
  /\ UNCHANGED <<page_writable, tstate, fault, polls, requested>>

\* The coordinator observes one thread to be parked or outside managed code.
Observe(t) ==
  /\ requested
  /\ t \notin observed
  /\ tstate[t] \in {"parked", "native"}
  /\ observed' = observed \cup {t}
  /\ UNCHANGED <<page_writable, tstate, fault, polls, requested>>

\* Every thread has been observed to be safe.
Synced == requested /\ observed = Threads

\* The coordinator restores access to the page and releases the parked threads.
Release ==
  /\ Synced
  /\ requested' = FALSE
  /\ page_writable' = TRUE
  /\ observed' = {}
  /\ tstate' = [t \in Threads |-> IF tstate[t] = "parked" THEN "resuming" ELSE tstate[t]]
  /\ UNCHANGED <<fault, polls>>

InitGate ==
  /\ page_writable = TRUE
  /\ tstate = [t \in Threads |-> "managed"]
  /\ fault = [t \in Threads |-> NoFault]
  /\ polls = [t \in Threads |-> 0]
  /\ requested = FALSE
  /\ observed = {}

\* ------------------------------------------------------------------------
\* The handler chain at the write
\* ------------------------------------------------------------------------

\* The handlers a caller of serialize_memory has in force, innermost first.
OuterChain(t) == IF has_outer[t] THEN << "outer" >> ELSE << >>

\* The handlers in force with the filter registered before the callers'.
try_chain_outermost(outer) == outer \o << "serialize_fault_filter" >>

\* The handlers in force at the write, innermost first: the __try block
\* holds nothing but the write, so its handler comes before the callers'.
try_chain(outer) == << "serialize_fault_filter" >> \o outer

\* Whether handler h takes a fault at addr.  A caller's handler takes any.
Takes(h, addr) ==
  IF h = "serialize_fault_filter"
  THEN serialize_fault_filter(addr).disp = "EXCEPTION_EXECUTE_HANDLER"
  ELSE TRUE

\* The handlers a fault at addr is offered to: each handler of the chain in
\* turn, up to the first that takes it.
RECURSIVE Offered(_, _)
Offered(ch, addr) ==
  IF ch = << >> THEN << >>
  ELSE IF Takes(Head(ch), addr) THEN << Head(ch) >>
  ELSE << Head(ch) >> \o Offered(Tail(ch), addr)

\* The write of thread t to address a, as the handler chain sees it.
ChainWrite(t, a) ==
  LET f == write_memory_serialize_page(a) IN
    /\ offered' = [offered EXCEPT ![t] =
                     IF f = "ok" THEN @ ELSE Offered(try_chain(OuterChain(t)), f)]
    /\ UNCHANGED has_outer

ChainPoll(t) == Poll(t) /\ ChainWrite(t, "page")

ChainStray(t) == StrayWrite(t) /\ ChainWrite(t, "other")

\* A caller of thread t enters or leaves a guarded block of its own.
RegisterOuter(t) ==
  /\ tstate[t] = "managed"
  /\ has_outer' = [has_outer EXCEPT ![t] = ~@]
  /\ UNCHANGED <<offered, gateVars>>

InitChain ==
  /\ has_outer = [t \in Threads |-> FALSE]
  /\ offered = [t \in Threads |-> << >>]

\* ------------------------------------------------------------------------
\* klassOopDesc
\* ------------------------------------------------------------------------

\* The words of a klassOopDesc: the header and the klass field.
HeaderWords == 2

\* The heap word sizes of the builds.
WordSizes == {4, 8}

\* sizeof(klassOopDesc), in bytes.
sizeof_klassOopDesc == HeaderWords * HeapWordSize

\* How many class objects there are, and how many places for them.
NObjects == 2
NPlaces == 3

Objects == 1..NObjects

\* The addresses a class object can be at.
Places == {k * sizeof_klassOopDesc : k \in 1..NPlaces}

\* An offset that depends on the object.
klass_part_offset_per_object == sizeof_klassOopDesc + HeapWordSize * (callee - 1)

\* header_size() without the division.
header_size_in_bytes == sizeof_klassOopDesc

\* header_size()
header_size == sizeof_klassOopDesc \div HeapWordSize

\* klass_part_offset_in_bytes()
klass_part_offset_in_bytes == sizeof_klassOopDesc

\* klass_part() that adds the header's size in words.
klass_part_in_words(b) == b + sizeof_klassOopDesc \div HeapWordSize

\* klass_part() of the object at address b.
klass_part(b) == b + klass_part_offset_in_bytes

Call_header_size(o) ==
  /\ callee' = o
  /\ ret_size' = [vals |-> ret_size.vals \cup {header_size},
                  objs |-> ret_size.objs \cup {o},
                  late |-> ret_size.late \/ moved]
  /\ UNCHANGED <<HeapWordSize, base, ret_off, ret_part, moved>>

Call_klass_part_offset_in_bytes(o) ==
  /\ callee' = o
  /\ ret_off' = [vals |-> ret_off.vals \cup {klass_part_offset_in_bytes},
                 objs |-> ret_off.objs \cup {o},
                 late |-> ret_off.late \/ moved]
  /\ UNCHANGED <<HeapWordSize, base, ret_size, ret_part, moved>>

Call_klass_part(o) ==
  /\ callee' = o
  /\ ret_part' = [obj |-> o, base |-> base[o], part |-> klass_part(base[o])]
  /\ UNCHANGED <<HeapWordSize, base, ret_size, ret_off, moved>>

\* The collector moves a class object to a free place.
Relocate(o) ==
  /\ \E b \in Places :
       /\ \A x \in Objects : base[x] # b
       /\ base' = [base EXCEPT ![o] = b]
  /\ moved' = TRUE
  /\ UNCHANGED <<HeapWordSize, callee, ret_size, ret_off, ret_part>>

NoRet == [vals |-> {}, objs |-> {}, late |-> FALSE]

InitKlassIn(sizes) ==
  /\ HeapWordSize \in sizes
  /\ base = [o \in Objects |-> o * sizeof_klassOopDesc]
  /\ callee = 1
  /\ ret_size = NoRet
  /\ ret_off = NoRet
  /\ ret_part = [obj |-> 1, base |-> sizeof_klassOopDesc,
                 part |-> klass_part(sizeof_klassOopDesc)]
  /\ moved = FALSE

\* ------------------------------------------------------------------------
\* Specifications
\* ------------------------------------------------------------------------

\* One build's initial state.
Init == InitAnchor /\ InitGate /\ InitKlassIn({8}) /\ InitChain

\* The frame anchor: its owner and one observer.
Next ==
  \/ Call_clear /\ UNCHANGED <<gateVars, klassVars, chainVars>>
  \/ Call_copy /\ UNCHANGED <<gateVars, klassVars, chainVars>>
  \/ Store /\ UNCHANGED <<gateVars, klassVars, chainVars>>
  \/ Call_make_walkable /\ UNCHANGED <<gateVars, klassVars, chainVars>>
  \/ Call_walkable /\ UNCHANGED <<gateVars, klassVars, chainVars>>
  \/ Read_sp /\ UNCHANGED <<gateVars, klassVars, chainVars>>
  \/ Read_fp /\ UNCHANGED <<gateVars, klassVars, chainVars>>
  \/ Read_pc /\ UNCHANGED <<gateVars, klassVars, chainVars>>
  \/ Recheck_sp /\ UNCHANGED <<gateVars, klassVars, chainVars>>
  \/ Resample /\ UNCHANGED <<gateVars, klassVars, chainVars>>

Spec == Init /\ [][Next]_vars

\* The frame anchor updated field by field: the setters and clear(), with
\* one observer.
NextSetters ==
  \/ Call_set_last_Java_sp /\ UNCHANGED <<gateVars, klassVars, chainVars>>
  \/ Call_set_last_Java_fp /\ UNCHANGED <<gateVars, klassVars, chainVars>>
  \/ Call_clear /\ UNCHANGED <<gateVars, klassVars, chainVars>>
  \/ Store /\ UNCHANGED <<gateVars, klassVars, chainVars>>
  \/ Read_sp /\ UNCHANGED <<gateVars, klassVars, chainVars>>
  \/ Read_fp /\ UNCHANGED <<gateVars, klassVars, chainVars>>
  \/ Read_pc /\ UNCHANGED <<gateVars, klassVars, chainVars>>
  \/ Recheck_sp /\ UNCHANGED <<gateVars, klassVars, chainVars>>
  \/ Resample /\ UNCHANGED <<gateVars, klassVars, chainVars>>

SpecSetters == Init /\ [][NextSetters]_vars

\* The safepoint gate: threads in and out of managed code, stray writes, the
\* coordinator.
NextGate ==
  \/ (\E t \in Threads : Poll(t)) /\ UNCHANGED <<anchorVars, klassVars, chainVars>>
  \/ (\E t \in Threads : LeaveManaged(t)) /\ UNCHANGED <<anchorVars, klassVars, chainVars>>
  \/ (\E t \in Threads : ReturnToManaged(t)) /\ UNCHANGED <<anchorVars, klassVars, chainVars>>
  \/ (\E t \in Threads : StrayWrite(t)) /\ UNCHANGED <<anchorVars, klassVars, chainVars>>
  \/ (\E t \in Threads : Resume(t)) /\ UNCHANGED <<anchorVars, klassVars, chainVars>>
  \/ (Request) /\ UNCHANGED <<anchorVars, klassVars, chainVars>>
  \/ (\E t \in Threads : Observe(t)) /\ UNCHANGED <<anchorVars, klassVars, chainVars>>
  \/ (Release) /\ UNCHANGED <<anchorVars, klassVars, chainVars>>

SpecGate == Init /\ [][NextGate]_vars

\* The rendezvous: every thread polls in a loop; the threads and the
\* coordinator keep running.
NextRendezvous ==
  \/ (\E t \in Threads : Poll(t)) /\ UNCHANGED <<anchorVars, klassVars, chainVars>>
  \/ (\E t \in Threads : Resume(t)) /\ UNCHANGED <<anchorVars, klassVars, chainVars>>
  \/ (Request) /\ UNCHANGED <<anchorVars, klassVars, chainVars>>
  \/ (\E t \in Threads : Observe(t)) /\ UNCHANGED <<anchorVars, klassVars, chainVars>>
  \/ (Release) /\ UNCHANGED <<anchorVars, klassVars, chainVars>>

SpecRendezvous ==
  /\ Init
  /\ [][NextRendezvous]_vars
  /\ \A t \in Threads : WF_gateVars(Poll(t))
  /\ \A t \in Threads : WF_gateVars(Resume(t))
  /\ \A t \in Threads : WF_gateVars(Observe(t))
  /\ WF_gateVars(Release)

\* Threads in and out of managed code.  The threads in managed code keep
\* polling and the coordinator keeps observing; a thread outside managed code
\* need not take any step.
NextNative ==
  \/ (\E t \in Threads : Poll(t)) /\ UNCHANGED <<anchorVars, klassVars, chainVars>>
  \/ (\E t \in Threads : LeaveManaged(t)) /\ UNCHANGED <<anchorVars, klassVars, chainVars>>
  \/ (\E t \in Threads : ReturnToManaged(t)) /\ UNCHANGED <<anchorVars, klassVars, chainVars>>
  \/ (\E t \in Threads : Resume(t)) /\ UNCHANGED <<anchorVars, klassVars, chainVars>>
  \/ (Request) /\ UNCHANGED <<anchorVars, klassVars, chainVars>>
  \/ (\E t \in Threads : Observe(t)) /\ UNCHANGED <<anchorVars, klassVars, chainVars>>
  \/ (Release) /\ UNCHANGED <<anchorVars, klassVars, chainVars>>

SpecNative ==
  /\ Init
  /\ [][NextNative]_vars
  /\ \A t \in Threads : WF_gateVars(Poll(t))
  /\ \A t \in Threads : WF_gateVars(Resume(t))
  /\ \A t \in Threads : WF_gateVars(Observe(t))

\* The handler chain: threads poll with and without handlers of their
\* callers in force.
NextChain ==
  \/ (\E t \in Threads : ChainPoll(t)) /\ UNCHANGED <<anchorVars, klassVars>>
  \/ (\E t \in Threads : ChainStray(t)) /\ UNCHANGED <<anchorVars, klassVars>>
  \/ (\E t \in Threads : RegisterOuter(t)) /\ UNCHANGED <<anchorVars, klassVars>>
  \/ (\E t \in Threads : Resume(t)) /\ UNCHANGED <<anchorVars, klassVars, chainVars>>
  \/ (Request) /\ UNCHANGED <<anchorVars, klassVars, chainVars>>
  \/ (\E t \in Threads : Observe(t)) /\ UNCHANGED <<anchorVars, klassVars, chainVars>>
  \/ (Release) /\ UNCHANGED <<anchorVars, klassVars, chainVars>>

SpecChain == Init /\ [][NextChain]_vars

\* The class objects, in either build.
InitKlass == InitAnchor /\ InitGate /\ InitKlassIn(WordSizes) /\ InitChain

NextKlass ==
  \/ (\E o \in Objects : Call_header_size(o)) /\ UNCHANGED <<anchorVars, gateVars, chainVars>>
  \/ (\E o \in Objects : Call_klass_part_offset_in_bytes(o)) /\ UNCHANGED <<anchorVars, gateVars, chainVars>>
  \/ (\E o \in Objects : Call_klass_part(o)) /\ UNCHANGED <<anchorVars, gateVars, chainVars>>
  \/ (\E o \in Objects : Relocate(o)) /\ UNCHANGED <<anchorVars, gateVars, chainVars>>

SpecKlass == InitKlass /\ [][NextKlass]_vars

\* ------------------------------------------------------------------------
\* Properties of the frame anchor
\* ------------------------------------------------------------------------

\* The observer's sample, once its three loads are done.
sample == [sp |-> r_sp, fp |-> r_fp, pc |-> r_pc]

SampleTaken == rpc \in {"recheck", "done"}

\* At most one clear() or copy() overlapped the sample.
OneUpdate == sOps \in {<< >>, << "clear" >>, << "copy" >>, << "publish" >>}

\* The anchor strictly before and strictly after that update.
SampleBefore == IF sOps = << >> THEN this ELSE op.pre
SampleAfter  == IF sOps = << >> THEN this ELSE op.post

\* C1 as stated, for the samples an observer acts on (sp present) and the
\* updates that change sp: a sample taken while one copy() or clear() runs is
\* the anchor's triple from before the update or the one from after it.
C1_Original ==
  SampleTaken /\ OneUpdate /\ r_sp # NULL /\ SampleBefore.sp # SampleAfter.sp
    => sample \in {SampleBefore, SampleAfter}

\* C1 (amended): a sample taken while one copy() or clear() runs whose sp is
\* present and is not the sp from before the update is the triple from after
\* the update: the new sp is never paired with an old fp or pc.
C1_NewSpHasNewFpPc ==
  SampleTaken /\ OneUpdate /\ r_sp # NULL /\ r_sp # SampleBefore.sp
    => sample = SampleAfter

\* A sample that a copy() from one frame to another overlapped and that loaded
\* the new sp.
C1_Witness ==
  /\ SampleTaken
  /\ sOps = << "copy" >>
  /\ op.pre.sp # NULL /\ op.pre.fp # op.post.fp /\ op.pre.pc # op.post.pc
  /\ r_sp # NULL /\ r_sp # op.pre.sp
  /\ sample = op.post

\* The running (or last) operation is a copy() to an anchor whose sp differs.
CopyChanging == op.kind = "copy" /\ op.pre.sp # op.post.sp

\* The stores of such a copy(), in the order the contract gives.
CopyOrder(src) ==
  << St("sp", NULL), St("fp", src.fp), St("pc", src.pc), St("sp", src.sp) >>

\* C2: a copy() whose source sp differs from the destination's stores
\* sp := absent, fp := src.fp, pc := src.pc, sp := src.sp in this order, and in
\* every state of the copy in which sp is present the anchor is the triple from
\* before the copy or the source's triple.
C2_CopyOrder ==
  CopyChanging =>
    /\ Len(done) <= 4
    /\ done = SubSeq(CopyOrder(op.post), 1, Len(done))
    /\ idle <=> Len(done) = 4
    /\ _last_Java_sp # NULL => this \in {op.pre, op.post}

\* In the middle of a copy() from one frame to another: sp absent, fp new.
C2_Witness ==
  /\ CopyChanging
  /\ op.pre.sp # NULL /\ op.post.sp # NULL /\ op.pre.fp # op.post.fp
  /\ Len(done) = 2
  /\ _last_Java_sp = NULL /\ _last_Java_fp = op.post.fp

\* C3: clear() stores sp := absent before it stores to fp and pc; once it has
\* returned and the owner has not written again, sp is absent and every load
\* of sp returns absent.
C3_ClearFirst ==
  /\ op.kind = "clear" =>
       /\ done[1] = St("sp", NULL)
       /\ \A i \in 2..Len(done) : done[i].f \in {"fp", "pc"} /\ done[i].v = NULL
       /\ _last_Java_sp = NULL
  /\ rpc # "sp" /\ r_ctx.kind = "clear" => r_sp = NULL

\* The observer loaded sp after a clear() of a present anchor had returned.
C3_Witness ==
  /\ rpc = "fp" /\ r_ctx.kind = "clear" /\ r_sp = NULL
  /\ idle /\ op.kind = "clear" /\ op.pre.sp # NULL /\ Len(done) = 3
  /\ this = Absent

\* C7: after clear() called twice in succession the anchor is what it was
\* after the first call: sp, fp and pc all absent.
C7_ClearIdempotent ==
  idle /\ again.on => this = op.pre /\ this = Absent

\* A second clear() has returned; the first one cleared a full anchor.
C7_Witness ==
  /\ idle /\ again.on
  /\ again.pre.sp # NULL /\ again.pre.fp # NULL /\ again.pre.pc # NULL
  /\ this = Absent

\* The publish/clear sequence: the sample was overlapped by nothing, by a
\* publish, by a clear(), or by a publish and then a clear().
PublishClear ==
  sOps \in {<< >>, << "publish" >>, << "clear" >>, << "publish", "clear" >>}

\* The anchor published in that sequence.
Published ==
  IF sOps = << >> THEN this
  ELSE IF sOps = << "publish" >> THEN op.post
  ELSE op.pre

\* What a load of sp returns once a publish or a clear() has returned.
SeesPublishAndClear ==
  /\ rpc # "sp" /\ r_ctx.kind = "copy" /\ r_ctx.sp # NULL => r_sp = r_ctx.sp
  /\ rpc # "sp" /\ r_ctx.kind = "clear" => r_sp = NULL

\* C9 as stated: the observer sees the published sp, then after clear() an
\* absent sp, and no sample of the sequence pairs a present sp with fp and pc
\* other than the ones published with it.
C9_Original ==
  /\ SeesPublishAndClear
  /\ SampleTaken /\ PublishClear /\ r_sp # NULL => sample = Published

\* C9 (amended): the observer sees the published sp, then after clear() an
\* absent sp, and every sample of the sequence that loads a present sp and
\* loads the same sp again after fp and pc carries the fp and pc published
\* with it.
C9_PublishClear ==
  /\ SeesPublishAndClear
  /\ rpc = "done" /\ PublishClear /\ r_sp # NULL /\ r_sp2 = r_sp
       => sample = Published

\* A sample taken between a publish and the clear() that followed it.
C9_Witness ==
  /\ rpc = "done" /\ sOps = << "publish", "clear" >>
  /\ r_ctx.kind = "copy" /\ r_sp # NULL /\ r_sp2 = r_sp
  /\ r_fp # NULL /\ r_pc # NULL
  /\ sample = op.pre
  /\ idle /\ this = Absent

\* C10 as stated: walkable() is true in every state, make_walkable changes no
\* field, and in no state is sp present with fp and pc other than the ones
\* paired with it (the ones from before or from after the running operation).
C10_AlwaysConsistent ==
  /\ walkable
  /\ walk_ret
  /\ op.kind = "make_walkable" => this = op.pre
  /\ _last_Java_sp # NULL => this \in {op.pre, op.post}

\* The running or last operation is a copy() that keeps a present sp.
CopySameSp == op.kind = "copy" /\ op.pre.sp = op.post.sp /\ op.pre.sp # NULL

\* C14 as stated: in a copy() that keeps a present sp, sp holds that value at
\* every step and is never stored as absent, fp and pc end as src's, and a
\* sample that this copy overlaps and that holds this sp is the anchor as it
\* was before the copy or as it is after it.
C14_SameSpSafe ==
  /\ CopySameSp =>
       /\ _last_Java_sp = op.pre.sp
       /\ \A i \in 1..Len(done) : done[i] # St("sp", NULL)
       /\ idle => this = op.post
  /\ CopySameSp /\ SampleTaken /\ sOps = << "copy" >> /\ r_sp = op.pre.sp
       => sample \in {op.pre, op.post}

\* The observer has loaded a present sp, then fp and pc, and then found sp
\* unchanged.
Rechecked == rpc = "done" /\ r_sp # NULL /\ r_sp2 = r_sp

\* The sample overlaps no update, or one clear(), or one copy() that changes
\* sp.
AtMostOneSpChange ==
  \/ sOps = << >>
  \/ /\ sOps \in {<< "clear" >>, << "copy" >>, << "publish" >>}
     /\ op.kind = "clear" \/ op.pre.sp # op.post.sp

\* The anchor after the stores ss, begun as a.
RECURSIVE After(_, _)
After(a, ss) == IF ss = << >> THEN a ELSE After(Apply(a, Head(ss)), Tail(ss))

\* The anchor's states at the instants of the running or last operation: before
\* it and after each of its stores.
OpStates ==
  LET ss == done \o todo
  IN  {After(op.pre, SubSeq(ss, 1, k)) : k \in 0..Len(ss)}

C17_SettersWriteOneField ==
  /\ [](op.kind = "set_sp" =>
          /\ idle
          /\ done = << St("sp", op.post.sp) >>
          /\ this = [op.pre EXCEPT !.sp = op.post.sp])
  /\ [](op.kind = "set_fp" =>
          /\ idle
          /\ done = << St("fp", op.post.fp) >>
          /\ this = [op.pre EXCEPT !.fp = op.post.fp])
  /\ [][rpc' # rpc => thisNext = this]_vars

\* A sample of an anchor updated by set_last_Java_sp and then
\* set_last_Java_fp: the sp that set_last_Java_sp stored with the fp from
\* before set_last_Java_fp.
C17_Witness ==
  /\ SampleTaken
  /\ sOps = << "set_sp", "set_fp" >>
  /\ op.kind = "set_fp" /\ idle
  /\ r_ctx = [kind |-> "set_sp", sp |-> r_sp]
  /\ r_sp # NULL
  /\ r_fp = op.pre.fp /\ op.pre.fp # op.post.fp /\ op.post.fp # NULL

\* C18 as stated: whenever set_last_Java_fp(fp) has run, sp was absent when
\* it was called or fp is NULL.
C18_FpOnlyWhenSpAbsent ==
  op.kind = "set_fp" => op.pre.sp = NULL \/ op.post.fp = NULL

\* C19: when copy(src) has returned, the anchor is src, whatever the anchor
\* and src held: sp equal or different, present or absent.
C19_CopyResult ==
  idle /\ op.kind = "copy" => this = op.post /\ Len(done) \in {3, 4}

C19_Witness ==
  /\ idle /\ op.kind = "copy"
  /\ op.pre.sp = op.post.sp /\ op.pre.sp # NULL
  /\ op.pre.fp # op.post.fp /\ op.pre.pc # op.post.pc
  /\ this = op.post

\* ------------------------------------------------------------------------
\* Properties of serialize_memory and the safepoint gate
\* ------------------------------------------------------------------------

\* C4: a fault of the poll write at the serialization page is suppressed and
\* the faulting thread is parked (until it is released and resumes); a fault
\* at any other address is not suppressed: it propagates, with its address,
\* to the outer handlers.
C4_FaultDisposition ==
  \A t \in Threads :
    /\ fault[t].addr = "page" =>
         fault[t].out = "suppressed" /\ tstate[t] \in {"parked", "resuming"}
    /\ fault[t].addr = "other" =>
         fault[t].out = "propagates" /\ tstate[t] = "faulted"
    /\ tstate[t] = "parked" => fault[t].addr = "page"
    /\ tstate[t] = "faulted" => fault[t].addr = "other"

C4_Witness ==
  \E t, u \in Threads :
    /\ fault[t] = [addr |-> "page", out |-> "suppressed"] /\ tstate[t] = "parked"
    /\ fault[u] = [addr |-> "other", out |-> "propagates"] /\ tstate[u] = "faulted"

AllParked == \A t \in Threads : tstate[t] = "parked"

\* C5: with every thread polling in a loop, after a request every thread is
\* eventually parked, each by its first poll after the request; and every
\* thread the coordinator releases eventually resumes.
C5_Rendezvous ==
  /\ [](requested => \A t \in Threads :
                       /\ polls[t] <= 1
                       /\ polls[t] = 1 => tstate[t] = "parked")
  /\ requested ~> AllParked
  /\ \A t \in Threads : (tstate[t] = "resuming") ~> (tstate[t] = "managed")

C5_Witness ==
  /\ requested
  /\ AllParked
  /\ \A t \in Threads : polls[t] = 1
  /\ observed = Threads

\* C6: while the coordinator has observed every thread to be parked or outside
\* managed code and has not released the gate, no thread is in managed code:
\* each is parked or outside, and none has returned from a poll.
C6_NoManagedWhileSynced ==
  Synced => \A t \in Threads :
              /\ tstate[t] \in {"parked", "native"}
              /\ tstate[t] = "native" => polls[t] = 0

C6_Witness ==
  /\ Synced
  /\ \E t \in Threads : tstate[t] = "parked" /\ polls[t] = 1
  /\ \E t \in Threads : tstate[t] = "native"

\* ------------------------------------------------------------------------
\* Properties of klassOopDesc
\* ------------------------------------------------------------------------

\* C8: klass_part_offset_in_bytes() and header_size() each return one value,
\* the build's size of a klassOopDesc in bytes and in words, whichever object
\* is asked, wherever the objects are and however often they are called.
C8_FixedValues ==
  /\ ret_off.vals \subseteq {HeaderWords * HeapWordSize}
  /\ ret_size.vals \subseteq {HeaderWords}

C8_Witness ==
  /\ ret_off.objs = Objects /\ ret_off.late /\ ret_off.vals # {}
  /\ ret_size.objs = Objects /\ ret_size.late /\ ret_size.vals # {}
  /\ \A o \in Objects : base[o] # o * sizeof_klassOopDesc

\* C12: a parked thread leaves the parked state only in the step in which
\* the coordinator, having observed every thread, restores access to the page
\* and releases it; no step of a thread and no other step of the coordinator
\* ends its parking, so without that step it stays parked.
C12_ParkedUntilReleased ==
  [][\A t \in Threads :
       tstate[t] = "parked" /\ tstate'[t] # "parked" =>
         /\ Synced
         /\ ~requested' /\ page_writable'
         /\ tstate'[t] = "resuming"]_vars

C12_Witness ==
  /\ requested
  /\ ~page_writable
  /\ \E t, u \in Threads :
       /\ tstate[t] = "parked" /\ t \in observed
       /\ tstate[u] = "resuming"

\* C13: a thread outside managed code is observed as safe as it is: when
\* every thread in managed code keeps polling, each request leads to a state in
\* which the coordinator has observed every thread, although the threads
\* outside managed code take no step; a thread observed outside managed code
\* that has not called serialize_memory since the request has no fault on
\* record and was never parked for it.
C13_NativeAlreadySafe ==
  /\ requested ~> Synced
  /\ [](\A t \in Threads :
          requested /\ tstate[t] = "native" /\ polls[t] = 0 => fault[t] = NoFault)

C13_Witness ==
  /\ Synced
  /\ \E t, u \in Threads :
       /\ tstate[t] = "native" /\ polls[t] = 0 /\ fault[t] = NoFault
       /\ tstate[u] = "parked" /\ polls[u] = 1

\* C16: klass_part() of an object at address b is b plus the size of a
\* klassOopDesc in bytes, for every object wherever it is; so after an object
\* has moved, klass_part() differs from its earlier result by the distance
\* moved.
C16_KlassPartIsBasePlusOffset ==
  /\ ret_part.part = ret_part.base + HeaderWords * HeapWordSize
  /\ \A o \in Objects : klass_part(base[o]) = base[o] + HeaderWords * HeapWordSize
  /\ klass_part(base[ret_part.obj]) - ret_part.part = base[ret_part.obj] - ret_part.base

C16_Witness ==
  /\ moved
  /\ ret_part.obj = NObjects
  /\ ret_part.base # NObjects * sizeof_klassOopDesc
  /\ base[ret_part.obj] # ret_part.base
  /\ klass_part(base[ret_part.obj]) # ret_part.part

C11_FilterInnermost ==
  \A t \in Threads :
    fault[t].addr # "none" =>
      /\ offered[t] # << >>
      /\ Head(offered[t]) = "serialize_fault_filter"
      /\ fault[t].addr = "page" => offered[t] = << "serialize_fault_filter" >>
      /\ fault[t].addr = "other" =>
           offered[t] = << "serialize_fault_filter" >> \o OuterChain(t)

C11_Witness ==
  \E t, u \in Threads :
    /\ has_outer[t] /\ fault[t].addr = "page" /\ tstate[t] = "parked"
    /\ offered[t] = << "serialize_fault_filter" >>
    /\ has_outer[u] /\ fault[u].addr = "other"
    /\ offered[u] = << "serialize_fault_filter", "outer" >>
====
